---- MODULE Spec2Model ----
(***************************************************************************)
(* A model of the two notebooks of the repository:                         *)
(*   - the methane cost notebook: terraform_cost and graph;                *)
(*   - the greenhouse cost-factor notebook: one cell of arithmetic that    *)
(*     prints its results.                                                 *)
(*                                                                         *)
(* Python floats are IEEE-754 binary64 numbers.  They are modelled bit for *)
(* bit: a float is a sign, a 53-bit significand and a binary exponent, and *)
(* every operation rounds to nearest, ties to even.  TLC's integers are 32 *)
(* bits wide, so significands are kept as little-endian sequences of       *)
(* 14-bit limbs.  Infinities, NaNs and subnormals are not modelled: no     *)
(* input of the model comes near the exponent limits.                      *)
(***************************************************************************)
EXTENDS Integers, Sequences, FiniteSets, TLC

VARIABLES call,    \* the last notebook statement executed, with its outcome
          files,   \* the image files present in the working directory
          stdout,  \* the lines printed so far by the greenhouse cell
          first,   \* the first call made since the kernel started
          args,    \* the prices drawn for terraform_cost as a pure function
          rets     \* what terraform_cost returned for them

vars == <<call, files, stdout, first, args, rets>>

(***************************************************************************)
(* Natural numbers of any size: little-endian limbs, no leading zero limb. *)
(***************************************************************************)
Base == 2^14

Max(a, b) == IF a >= b THEN a ELSE b

Limb(a, i) == IF i \in 1..Len(a) THEN a[i] ELSE 0

RECURSIVE BTrim(_)
BTrim(a) ==
  IF a = <<>> THEN a
  ELSE IF a[Len(a)] = 0 THEN BTrim(SubSeq(a, 1, Len(a) - 1)) ELSE a

RECURSIVE BCarry(_, _, _)
BCarry(cols, i, c) ==
  IF i > Len(cols)
  THEN IF c = 0 THEN <<>> ELSE <<c % Base>> \o BCarry(cols, i, c \div Base)
  ELSE LET t == cols[i] + c IN <<t % Base>> \o BCarry(cols, i + 1, t \div Base)

BNat(cols) == BTrim(BCarry(cols, 1, 0))

BFromInt(n) == BNat(<<n>>)

RECURSIVE BToInt(_)
BToInt(a) == IF a = <<>> THEN 0 ELSE a[1] + Base * BToInt(Tail(a))

BAdd(a, b) == BNat([i \in 1..Max(Len(a), Len(b)) |-> Limb(a, i) + Limb(b, i)])

RECURSIVE BBorrow(_, _, _, _)
BBorrow(a, b, i, br) ==
  IF i > Len(a) THEN <<>>
  ELSE LET t == a[i] - Limb(b, i) - br
       IN IF t < 0 THEN <<t + Base>> \o BBorrow(a, b, i + 1, 1)
                   ELSE <<t>> \o BBorrow(a, b, i + 1, 0)

\* a - b, for a >= b
BSub(a, b) == BTrim(BBorrow(a, b, 1, 0))

RECURSIVE BCmpAt(_, _, _)
BCmpAt(a, b, i) ==
  IF i = 0 THEN 0
  ELSE IF a[i] > b[i] THEN 1
  ELSE IF a[i] < b[i] THEN -1
  ELSE BCmpAt(a, b, i - 1)

BCmp(a, b) ==
  IF Len(a) > Len(b) THEN 1
  ELSE IF Len(a) < Len(b) THEN -1
  ELSE BCmpAt(a, b, Len(a))

RECURSIVE BCol(_, _, _, _)
BCol(a, b, k, i) ==
  IF i > Len(a) THEN 0
  ELSE (IF (k + 1 - i) \in 1..Len(b) THEN a[i] * b[k + 1 - i] ELSE 0)
       + BCol(a, b, k, i + 1)

BMul(a, b) ==
  IF a = <<>> \/ b = <<>> THEN <<>>
  ELSE BNat([k \in 1..(Len(a) + Len(b) - 1) |-> BCol(a, b, k, 1)])

BShl(a, n) ==
  LET q == n \div 14
      r == n % 14
  IN BNat([i \in 1..(Len(a) + q) |-> IF i <= q THEN 0 ELSE a[i - q] * 2^r])

BShr(a, n) ==
  LET q == n \div 14
      r == n % 14
      L == Len(a) - q
  IN IF L <= 0 THEN <<>>
     ELSE BTrim([i \in 1..L |->
                   (a[i + q] \div 2^r) + (Limb(a, i + q + 1) % 2^r) * 2^(14 - r)])

\* bit k (from 0) of a
BBit(a, k) == (Limb(a, (k \div 14) + 1) \div 2^(k % 14)) % 2

\* is one of the low n bits of a set?
BLowNonzero(a, n) ==
  \/ \E i \in 1..Len(a) : i <= n \div 14 /\ a[i] # 0
  \/ Limb(a, (n \div 14) + 1) % 2^(n % 14) # 0

BBitLen(a) ==
  IF a = <<>> THEN 0
  ELSE 14 * (Len(a) - 1)
       + (CHOOSE k \in 1..14 : 2^(k - 1) <= a[Len(a)] /\ a[Len(a)] < 2^k)

\* the number of trailing zero bits of a # 0
BTrailingZeros(a) == CHOOSE k \in 0..(14 * Len(a)) :
                        BBit(a, k) = 1 /\ ~BLowNonzero(a, k)

\* the largest digit q with q * d <= t, found bit by bit from the top
RECURSIVE BDigit(_, _, _, _)
BDigit(t, d, b, q) ==
  IF b < 0 THEN q
  ELSE IF BCmp(BMul(d, <<q + 2^b>>), t) <= 0 THEN BDigit(t, d, b - 1, q + 2^b)
  ELSE BDigit(t, d, b - 1, q)

BPush(rest, qd) == [q |-> rest.q \o <<qd>>, r |-> rest.r]

\* schoolbook long division, one limb of the quotient at a time from the
\* top: r is the remainder so far, t the remainder with limb i brought down
RECURSIVE BLongDiv(_, _, _, _)
RECURSIVE BLongDivBy(_, _, _, _, _)
BLongDivAt(n, d, i, t) == BLongDivBy(n, d, i, t, BDigit(t, d, 13, 0))

BLongDivBy(n, d, i, t, qd) ==
  BPush(BLongDiv(n, d, i - 1, BSub(t, BMul(d, <<qd>>))), qd)

BLongDiv(n, d, i, r) ==
  IF i = 0 THEN [q |-> <<>>, r |-> r]
  ELSE BLongDivAt(n, d, i, BTrim(<<n[i]>> \o r))

\* division by a one-limb divisor, limb by limb from the top
RECURSIVE BShortDiv(_, _, _, _)
BShortDiv(n, d, i, r) ==
  IF i = 0 THEN [q |-> <<>>, r |-> BFromInt(r)]
  ELSE BPush(BShortDiv(n, d, i - 1, (r * Base + n[i]) % d), (r * Base + n[i]) \div d)

BTrimQuotient(qr) == [q |-> BTrim(qr.q), r |-> qr.r]

\* quotient and remainder of n by d # 0
BDivMod(n, d) ==
  BTrimQuotient(IF Len(d) = 1 THEN BShortDiv(n, d[1], Len(n), 0)
                ELSE BLongDiv(n, d, Len(n), <<>>))

(***************************************************************************)
(* binary64: [s, m, e] is (-1)^s * m * 2^e with 2^52 <= m < 2^53, or zero. *)
(***************************************************************************)
FZero(s) == [s |-> s, m |-> <<>>, e |-> 0]

IsZero(a) == a.m = <<>>

Float(s, m, e) == [s |-> s, m |-> m, e |-> e]

\* round to nearest, ties to even: is m, cut after its low d bits (d >= 1),
\* rounded up?  sticky: the exact value is a little more than m
RoundsUp(m, d, sticky) ==
  BBit(m, d - 1) = 1 /\ (sticky \/ BLowNonzero(m, d - 1) \/ BBit(m, d) = 1)

\* a significand that rounding carried to 2^53 is 2^52 one exponent up
FCarried(s, q, e) ==
  IF BBitLen(q) = 54 THEN Float(s, BShr(q, 1), e + 1) ELSE Float(s, q, e)

\* m has n bits
FRoundBits(s, m, e, sticky, n) ==
  IF n = 0 THEN FZero(s)
  ELSE IF n <= 53 THEN Float(s, BShl(m, 53 - n), e - (53 - n))
  ELSE IF RoundsUp(m, n - 53, sticky)
       THEN FCarried(s, BAdd(BShr(m, n - 53), <<1>>), e + (n - 53))
       ELSE Float(s, BShr(m, n - 53), e + (n - 53))

\* the float nearest the exact value (-1)^s * m * 2^e (plus a little, when
\* sticky, and then m has more than 53 bits)
FRound(s, m, e, sticky) == FRoundBits(s, m, e, sticky, BBitLen(m))

FromInt(n) == FRound(IF n < 0 THEN 1 ELSE 0, BFromInt(IF n < 0 THEN -n ELSE n), 0, FALSE)

FNeg(a) == [a EXCEPT !.s = 1 - a.s]

FAbs(a) == [a EXCEPT !.s = 0]

FMul(a, b) ==
  IF IsZero(a) \/ IsZero(b) THEN FZero((a.s + b.s) % 2)
  ELSE FRound((a.s + b.s) % 2, BMul(a.m, b.m), a.e + b.e, FALSE)

\* the sum of (-1)^sa * ma * 2^e and (-1)^sb * mb * 2^e; c compares ma, mb
FAddAligned(sa, ma, sb, mb, e, c) ==
  IF sa # sb /\ c = 0 THEN FZero(0)
  ELSE FRound(IF sa = sb \/ c > 0 THEN sa ELSE sb,
              IF sa = sb THEN BAdd(ma, mb)
              ELSE IF c > 0 THEN BSub(ma, mb) ELSE BSub(mb, ma),
              e, FALSE)

FAddAt(a, b, ma, mb, e) == FAddAligned(a.s, ma, b.s, mb, e, BCmp(ma, mb))

FAddFrom(a, b, e) == FAddAt(a, b, BShl(a.m, a.e - e), BShl(b.m, b.e - e), e)

FAdd(a, b) ==
  IF IsZero(a) /\ IsZero(b) THEN FZero(IF a.s = 1 /\ b.s = 1 THEN 1 ELSE 0)
  ELSE IF IsZero(a) THEN b
  ELSE IF IsZero(b) THEN a
  ELSE FAddFrom(a, b, IF a.e <= b.e THEN a.e ELSE b.e)

FSub(a, b) == FAdd(a, FNeg(b))

FQuotient(s, qr, e) == FRound(s, qr.q, e, qr.r # <<>>)

\* tz: the divisor's trailing zero bits, which go to the exponent
FDivOdd(a, b, tz) ==
  FQuotient((a.s + b.s) % 2, BDivMod(BShl(a.m, 56), BShr(b.m, tz)),
            a.e - (b.e + tz) - 56)

\* a / b for b # 0
FDiv(a, b) ==
  IF IsZero(a) THEN FZero((a.s + b.s) % 2) ELSE FDivOdd(a, b, BTrailingZeros(b.m))

\* -1, 0 or 1 as |a| < |b|, |a| = |b|, |a| > |b|
FCmpMag(a, b) ==
  IF IsZero(a) /\ IsZero(b) THEN 0
  ELSE IF IsZero(a) THEN -1
  ELSE IF IsZero(b) THEN 1
  ELSE IF a.e > b.e THEN 1
  ELSE IF a.e < b.e THEN -1
  ELSE BCmp(a.m, b.m)

\* -1, 0 or 1 as a < b, a = b, a > b
FCmp(a, b) ==
  IF IsZero(a) /\ IsZero(b) THEN 0
  ELSE IF a.s = 0 /\ b.s = 0 THEN FCmpMag(a, b)
  ELSE IF a.s = 1 /\ b.s = 1 THEN FCmpMag(b, a)
  ELSE IF a.s = 1 THEN -1 ELSE 1

FEq(a, b) == FCmp(a, b) = 0

FLe(a, b) == FCmp(a, b) <= 0

\* the float a decimal literal num/den denotes: the nearest float
Lit(num, den) == FDiv(FromInt(num), FromInt(den))

\* conversion of a float to a numpy int64 element: toward zero
FTruncMag(a) == IF a.e >= 0 THEN BToInt(BShl(a.m, a.e)) ELSE BToInt(BShr(a.m, -a.e))

FTrunc(a) ==
  IF IsZero(a) THEN 0 ELSE IF a.s = 1 THEN -FTruncMag(a) ELSE FTruncMag(a)

DigitChar == <<"0", "1", "2", "3", "4", "5", "6", "7", "8", "9">>

RECURSIVE Digits(_, _)
Digits(n, d) == IF d = 0 THEN "" ELSE Digits(n \div 10, d - 1) \o DigitChar[(n % 10) + 1]

\* t * 2^-k for k >= 1, rounded to the nearest integer, ties to even
RoundShift(t, k) ==
  BToInt(IF RoundsUp(t, k, FALSE) THEN BAdd(BShr(t, k), <<1>>) ELSE BShr(t, k))

\* |a| * 10^d rounded to the nearest integer, ties to even
RoundScaled(a, d) ==
  IF IsZero(a) THEN 0
  ELSE IF a.e >= 0 THEN BToInt(BShl(BMul(a.m, BFromInt(10^d)), a.e))
  ELSE RoundShift(BMul(a.m, BFromInt(10^d)), -a.e)

\* the digits of n / 10^d with d decimals, d >= 1
FormatScaled(neg, n, d) ==
  (IF neg THEN "-" ELSE "") \o ToString(n \div 10^d) \o "." \o Digits(n % 10^d, d)

\* format(a, '.<d>f') of a float: the exact value rounded to d decimals
FormatF(a, d) == FormatScaled(a.s = 1, RoundScaled(a, d), d)

\* format(n, '.<d>f') of an integer
FormatInt(n, d) == FormatScaled(n < 0, (IF n < 0 THEN -n ELSE n) * 10^d, d)

(***************************************************************************)
(* numpy arrays: an element type and the elements.  A float64 element is a *)
(* float, an int64 element [n |-> an integer].                             *)
(***************************************************************************)
IntElt(n) == [n |-> n]

Array(dtype, v) == [dtype |-> dtype, v |-> v]

NoArray == Array("none", <<>>)

\* the element as a Python float, as true division and float arithmetic
\* convert it
ToFloat(dtype, elt) == IF dtype = "int64" THEN FromInt(elt.n) ELSE elt

\* Z[i, j] = value: the value is cast to the array's element type
Store(dtype, value) == IF dtype = "int64" THEN IntElt(FTrunc(value)) ELSE value

\* f'{elt:.<d>f}' of an element
FormatElt(dtype, elt, d) ==
  IF dtype = "int64" THEN FormatInt(elt.n, d) ELSE FormatF(elt, d)

\* A faulty variant of the grid: matrix indexing, rows along x
meshgrid_ij(x, y) ==
  << Array(x.dtype, [i \in 1..Len(x.v) |-> [j \in 1..Len(y.v) |-> x.v[i]]]),
     Array(y.dtype, [i \in 1..Len(x.v) |-> y.v]) >>

\* np.meshgrid(x, y): X repeats x in every row, Y repeats y in every column
meshgrid(x, y) ==
  << Array(x.dtype, [i \in 1..Len(y.v) |-> x.v]),
     Array(y.dtype, [i \in 1..Len(y.v) |-> [j \in 1..Len(x.v) |-> y.v[i]]]) >>

\* np.zeros_like(X): the shape and the element type of X
zeros_like(X) ==
  Array(X.dtype, [i \in 1..Len(X.v) |->
                    [j \in 1..Len(X.v[i]) |->
                       IF X.dtype = "int64" THEN IntElt(0) ELSE FZero(0)]])

Rows(A) == Len(A.v)

Cols(A) == IF A.v = <<>> THEN 0 ELSE Len(A.v[1])

(***************************************************************************)
(* The methane cost notebook.                                              *)
(***************************************************************************)
CH4_KG_PER_KCF == Lit(1917, 100)

kg_co2_per_kg_ch4 == Lit(274, 100)

kg_h2_per_kg_ch4 == Lit(251, 1000)

cost_scale_factor == Lit(1195, 1000)

\* Faulty variants of terraform_cost, against which the properties below are
\* tried: the scale factor applied to the hydrogen term alone,
terraform_cost_unscaled_co2(usd_per_kg_co2, usd_per_kg_h2) ==
  FAdd(FMul(usd_per_kg_co2, kg_co2_per_kg_ch4),
       FMul(FMul(usd_per_kg_h2, kg_h2_per_kg_ch4), cost_scale_factor))

\* the two mass ratios exchanged,
terraform_cost_swapped(usd_per_kg_co2, usd_per_kg_h2) ==
  FMul(FAdd(FMul(usd_per_kg_co2, kg_h2_per_kg_ch4),
            FMul(usd_per_kg_h2, kg_co2_per_kg_ch4)),
       cost_scale_factor)

\* and the hydrogen cost subtracted instead of added.
terraform_cost_minus_h2(usd_per_kg_co2, usd_per_kg_h2) ==
  FMul(FSub(FMul(usd_per_kg_co2, kg_co2_per_kg_ch4),
            FMul(usd_per_kg_h2, kg_h2_per_kg_ch4)),
       cost_scale_factor)

terraform_cost(usd_per_kg_co2, usd_per_kg_h2) ==
  LET co2_cost   == FMul(usd_per_kg_co2, kg_co2_per_kg_ch4)
      h2_cost    == FMul(usd_per_kg_h2, kg_h2_per_kg_ch4)
      total_cost == FMul(FAdd(co2_cost, h2_cost), cost_scale_factor)
  IN total_cost

\* A faulty variant of the check: only the empty string is refused.
UnitsValid_nonempty(units) == units # ""

\* the check at the head of graph
UnitsValid(units) == units \in {"kg", "kcf"}

\* A faulty variant of the branch: the unit is taken from what an earlier call
\* left behind as well as from the argument.
UnitCost_sticky(cost_per_kg, units) ==
  IF units = "kcf" \/ "terraform_cost_kcf.png" \in files
  THEN FMul(cost_per_kg, CH4_KG_PER_KCF)
  ELSE cost_per_kg

\* the branch on units in the double loop: what is assigned to Z[i, j]
UnitCost(cost_per_kg, units) ==
  IF units = "kcf" THEN FMul(cost_per_kg, CH4_KG_PER_KCF) ELSE cost_per_kg

\* the body of the double loop
CellCost(X, Y, i, j, units) ==
  LET co2_price_per_kg == FDiv(ToFloat(X.dtype, X.v[i][j]), FromInt(1000))
      h2_price_per_kg  == ToFloat(Y.dtype, Y.v[i][j])
      cost_per_kg      == terraform_cost(co2_price_per_kg, h2_price_per_kg)
  IN UnitCost(cost_per_kg, units)

\* the double loop, from cell (i, j) on, rows outermost
RECURSIVE FillFrom(_, _, _, _, _, _)
FillFrom(X, Y, Z, units, i, j) ==
  IF i > Rows(X) THEN Z
  ELSE IF j > Cols(X) THEN FillFrom(X, Y, Z, units, i + 1, 1)
  ELSE FillFrom(X, Y,
                [Z EXCEPT !.v[i][j] = Store(Z.dtype, CellCost(X, Y, i, j, units))],
                units, i, j + 1)

\* the text placed on every square
Annotations(Z) ==
  [i \in 1..Rows(Z) |-> [j \in 1..Cols(Z) |-> "$" \o FormatElt(Z.dtype, Z.v[i][j], 2)]]

FileName(units) == "terraform_cost_" \o units \o ".png"

\* the figure of the matrix Z: annotated, saved and shown
Plot(Z, units) ==
  [raised |-> "", Z |-> Z, text |-> Annotations(Z),
   savefig |-> FileName(units), shown |-> TRUE]

CostMatrix(X, Y, units) == FillFrom(X, Y, zeros_like(X), units, 1, 1)

Grid(XY, units) == Plot(CostMatrix(XY[1], XY[2], units), units)

\* graph(x_axis_values, y_axis_values, units): what the call leaves behind
graph(x_axis_values, y_axis_values, units) ==
  IF ~UnitsValid(units)
  THEN [raised |-> "ValueError", Z |-> NoArray, text |-> <<>>,
        savefig |-> "", shown |-> FALSE]
  ELSE Grid(meshgrid(x_axis_values, y_axis_values), units)

(***************************************************************************)
(* The greenhouse cost-factor notebook: one cell, no inputs.               *)
(***************************************************************************)
BTU_PER_DEGREE_HOUR_PER_SQFT == Lit(24, 100)

KWH_PER_BTU == Lit(293071, 1000000000)

TYPICAL_SQFT == 10000

TYPICAL_HEIGHT_FT == 16

AIR_CHANGES_PER_HOUR == Lit(15, 10)

INFILTRATION_FACTOR == Lit(12, 10)

GREENHOUSE_EFFECT_FACTOR == Lit(13, 10)

HEATING_SYSTEM_COP == Lit(85, 100)

COOLING_SYSTEM_COP == Lit(25, 10)

baseEnergyPerDegreeHour == FMul(BTU_PER_DEGREE_HOUR_PER_SQFT, FromInt(TYPICAL_SQFT))

volumeEffect ==
  FDiv(FMul(FromInt(TYPICAL_HEIGHT_FT), AIR_CHANGES_PER_HOUR), FromInt(8))

adjustedEnergy ==
  FMul(FMul(baseEnergyPerDegreeHour, volumeEffect), INFILTRATION_FACTOR)

heatingBtuPerDegreeHour ==
  FDiv(FDiv(adjustedEnergy, HEATING_SYSTEM_COP), GREENHOUSE_EFFECT_FACTOR)

\* A faulty variant of the cooling load: the greenhouse effect divides, as it
\* does for heating.
coolingBtuPerDegreeHour_divided ==
  FDiv(FDiv(adjustedEnergy, COOLING_SYSTEM_COP), GREENHOUSE_EFFECT_FACTOR)

coolingBtuPerDegreeHour ==
  FDiv(FMul(adjustedEnergy, GREENHOUSE_EFFECT_FACTOR), COOLING_SYSTEM_COP)

heatingKwhPerDegreeHour == FMul(heatingBtuPerDegreeHour, KWH_PER_BTU)

coolingKwhPerDegreeHour == FMul(coolingBtuPerDegreeHour, KWH_PER_BTU)

NATURAL_GAS_PER_KWH == Lit(4, 100)

ELECTRICITY_PER_KWH == Lit(12, 100)

heatingCostPerDegreeHour == FMul(heatingKwhPerDegreeHour, NATURAL_GAS_PER_KWH)

coolingCostPerDegreeHour == FMul(coolingKwhPerDegreeHour, ELECTRICITY_PER_KWH)

SQFT_PER_SQM == Lit(107639, 10000)

\* the lines the cell prints, in order
GreenhouseCellOutput ==
  << "Energy Requirements per Degree Hour for 10,000 sqft greenhouse:",
     "Heating: " \o FormatF(heatingKwhPerDegreeHour, 2) \o " kWh",
     "Cooling: " \o FormatF(coolingKwhPerDegreeHour, 2) \o " kWh",
     "Energy requirements per Square Foot per degree hour:",
     "Heating: "
       \o FormatF(FDiv(heatingKwhPerDegreeHour, FromInt(TYPICAL_SQFT)), 4)
       \o " kWh/m2",
     "Cooling: "
       \o FormatF(FDiv(coolingKwhPerDegreeHour, FromInt(TYPICAL_SQFT)), 4)
       \o " kWh/m2",
     "Energy requirements per Square Meter per degree hour:",
     "Heating: "
       \o FormatF(FMul(FDiv(heatingKwhPerDegreeHour, FromInt(TYPICAL_SQFT)),
                       SQFT_PER_SQM), 4)
       \o " kWh/m2",
     "Cooling: "
       \o FormatF(FMul(FDiv(coolingKwhPerDegreeHour, FromInt(TYPICAL_SQFT)),
                       SQFT_PER_SQM), 4)
       \o " kWh/m2",
     "",
     "Cost per Degree Hour:",
     "Heating: $" \o FormatF(heatingCostPerDegreeHour, 3),
     "Cooling: $" \o FormatF(coolingCostPerDegreeHour, 3) >>

(***************************************************************************)
(* The inputs the model draws.                                             *)
(***************************************************************************)
MaxAxisLen == 2

\* the ways to pick 1..n of k values in increasing order: an axis is a
\* strictly increasing sequence, as np.linspace gives it
Picks(k, n) ==
  {q \in UNION {[1..l -> 1..k] : l \in 1..n} :
     \A i \in 1..(Len(q) - 1) : q[i] < q[i + 1]}

\* CO2 prices in USD per tonne: the end points and the midpoint of the
\* notebook's x axis
XValues == <<78, 164, 250>>

\* H2 prices in USD per kg: the end points and the midpoint of the notebook's
\* y axis
YValues == <<Lit(89, 100), Lit(1695, 1000), Lit(25, 10)>>

\* x axes: the same prices as an array of floats and as an array of integers
XAxes == {Array("float64", [i \in DOMAIN q |-> FromInt(XValues[q[i]])]) :
            q \in Picks(Len(XValues), MaxAxisLen)}
         \cup {Array("int64", [i \in DOMAIN q |-> IntElt(XValues[q[i]])]) :
                 q \in Picks(Len(XValues), MaxAxisLen)}

YAxes == {Array("float64", [i \in DOMAIN q |-> YValues[q[i]]]) :
            q \in Picks(Len(YValues), MaxAxisLen)}

UnitsInputs == {"kg", "kcf", "lbs"}

\* 78/1000 is the notebook's sample invocation
Co2Inputs == {Lit(-5, 10), FZero(0), FDiv(FromInt(78), FromInt(1000)), Lit(25, 100)}

H2Inputs == {Lit(-1, 1), FZero(0), Lit(89, 100), Lit(25, 10)}

\* the calls tried for repetition: one axis pair of each element type
RepeatXAxes == {Array("float64", <<FromInt(78), FromInt(250)>>),
                Array("int64", <<IntElt(78), IntElt(250)>>)}

RepeatYAxes == {Array("float64", <<Lit(89, 100)>>),
                Array("float64", <<Lit(89, 100), Lit(25, 10)>>)}

RepeatCo2 == {FDiv(FromInt(78), FromInt(1000)), Lit(25, 100)}

RepeatH2 == {Lit(89, 100)}

NonNegative(S) == {v \in S : v.s = 0}

(***************************************************************************)
(* The notebooks as a state machine.  A kernel runs one statement at a     *)
(* time: a call is made when the kernel is idle, and its locals are gone   *)
(* when it has returned.                                                   *)
(***************************************************************************)
Idle == [op |-> "none"]

Init == /\ call = Idle
        /\ files = {}
        /\ stdout = <<>>
        /\ first = Idle
        /\ args = <<>>
        /\ rets = <<>>

CallTerraformCost(usd_per_kg_co2, usd_per_kg_h2) ==
  /\ call = Idle
  /\ call' = [op |-> "terraform_cost",
              usd_per_kg_co2 |-> usd_per_kg_co2,
              usd_per_kg_h2 |-> usd_per_kg_h2,
              ret |-> terraform_cost(usd_per_kg_co2, usd_per_kg_h2)]
  /\ UNCHANGED <<files, stdout>>

\* what a call of graph that ended with out leaves in the kernel
GraphDone(x_axis_values, y_axis_values, units, out) ==
  /\ call' = [op |-> "graph", x_axis_values |-> x_axis_values,
              y_axis_values |-> y_axis_values, units |-> units, out |-> out]
  /\ files' = IF out.savefig = "" THEN files ELSE files \cup {out.savefig}

CallGraph(x_axis_values, y_axis_values, units) ==
  /\ call = Idle
  /\ GraphDone(x_axis_values, y_axis_values, units,
               graph(x_axis_values, y_axis_values, units))
  /\ UNCHANGED stdout

Return ==
  /\ call # Idle
  /\ call' = Idle
  /\ UNCHANGED <<files, stdout>>

RunGreenhouseCell ==
  /\ stdout' = GreenhouseCellOutput
  /\ UNCHANGED <<call, files>>

TerraformCostStep ==
  /\ \E c \in Co2Inputs, h \in H2Inputs : CallTerraformCost(c, h)
  /\ UNCHANGED <<first, args, rets>>

GraphStep ==
  /\ \E x \in XAxes, y \in YAxes, u \in UnitsInputs : CallGraph(x, y, u)
  /\ UNCHANGED <<first, args, rets>>

ReturnStep == Return /\ UNCHANGED <<first, args, rets>>

GreenhouseStep == RunGreenhouseCell /\ UNCHANGED <<first, args, rets>>

Next == TerraformCostStep \/ GraphStep \/ ReturnStep \/ GreenhouseStep

Spec == Init /\ [][Next]_vars

(***************************************************************************)
(* The same kernel, remembering the first call made: what a call does as   *)
(* the first call against what it does after any others.                   *)
(***************************************************************************)
Remember == first' = IF first = Idle THEN call' ELSE first

RepeatTerraformCost ==
  /\ \E c \in RepeatCo2, h \in RepeatH2 : CallTerraformCost(c, h)
  /\ Remember
  /\ UNCHANGED <<args, rets>>

RepeatGraph ==
  /\ \E x \in RepeatXAxes, y \in RepeatYAxes, u \in UnitsInputs : CallGraph(x, y, u)
  /\ Remember
  /\ UNCHANGED <<args, rets>>

RepeatReturn == Return /\ UNCHANGED <<first, args, rets>>

NextRepeat == RepeatTerraformCost \/ RepeatGraph \/ RepeatReturn

SpecRepeat == Init /\ [][NextRepeat]_vars

(***************************************************************************)
(* terraform_cost as a pure function: two pairs of non-negative prices are *)
(* drawn, and the function is applied to each pair, to their sum, and to   *)
(* the sum with the second pair added once more.                           *)
(***************************************************************************)
InitLinear ==
  /\ call = Idle
  /\ files = {}
  /\ stdout = <<>>
  /\ first = Idle
  /\ args \in [a1 : NonNegative(Co2Inputs), a2 : NonNegative(Co2Inputs),
               b1 : NonNegative(H2Inputs), b2 : NonNegative(H2Inputs)]
  /\ rets = <<>>

Apply(name, usd_per_kg_co2, usd_per_kg_h2) ==
  /\ name \notin DOMAIN rets
  /\ rets' = rets @@ (name :> terraform_cost(usd_per_kg_co2, usd_per_kg_h2))
  /\ UNCHANGED <<call, files, stdout, first, args>>

ApplyLeft == Apply("left", args.a1, args.b1)

ApplyRight == Apply("right", args.a2, args.b2)

ApplySum == Apply("sum", FAdd(args.a1, args.a2), FAdd(args.b1, args.b2))

\* one more increment of the same size
ApplyNext ==
  Apply("next", FAdd(FAdd(args.a1, args.a2), args.a2),
                FAdd(FAdd(args.b1, args.b2), args.b2))

NextLinear == ApplyLeft \/ ApplyRight \/ ApplySum \/ ApplyNext

SpecLinear == InitLinear /\ [][NextLinear]_vars
(***************************************************************************)
(* The claims.                                                             *)
(***************************************************************************)
NoRaise == ""

TerraformCostCalled == call.op = "terraform_cost"

GraphCalled == call.op = "graph"

\* C1: for every pair of prices, negative and zero ones included,
\* terraform_cost returns (usd_per_kg_co2 * 2.74 + usd_per_kg_h2 * 0.251)
\* * 1.195, and the call changes neither the files nor the output.
C1_TerraformCostFormula ==
  [][(call = Idle /\ call'.op = "terraform_cost") =>
       /\ call'.ret = FMul(FAdd(FMul(call'.usd_per_kg_co2, Lit(274, 100)),
                                FMul(call'.usd_per_kg_h2, Lit(251, 1000))),
                           Lit(1195, 1000))
       /\ files' = files
       /\ stdout' = stdout]_vars

\* C1's case: terraform_cost has returned for a negative CO2 price, with an
\* image file written before the call
C1_Witness ==
  /\ TerraformCostCalled
  /\ call.usd_per_kg_co2.s = 1 /\ ~IsZero(call.usd_per_kg_co2)
  /\ files # {}

SampleInvocation ==
  /\ TerraformCostCalled
  /\ call.usd_per_kg_co2 = FDiv(FromInt(78), FromInt(1000))
  /\ call.usd_per_kg_h2 = Lit(89, 100)

SampleValue ==
  FMul(FAdd(FMul(Lit(78, 1000), Lit(274, 100)), FMul(Lit(89, 100), Lit(251, 1000))),
       Lit(1195, 1000))

\* C2 as stated: terraform_cost(78/1000, 0.89) returns
\* (0.078*2.74 + 0.89*0.251)*1.195, which rounds to 0.5108 at four decimals.
C2_Original ==
  SampleInvocation => (call.ret = SampleValue /\ FormatF(call.ret, 4) = "0.5108")

\* C2, amended: terraform_cost(78/1000, 0.89) returns
\* (0.078*2.74 + 0.89*0.251)*1.195, which rounds to 0.5223 at four decimals.
C2_SampleValue ==
  SampleInvocation => (call.ret = SampleValue /\ FormatF(call.ret, 4) = "0.5223")

\* C2's case: the sample invocation has returned
C2_Witness == SampleInvocation /\ FormatF(call.ret, 2) = "0.52"

\* C3: graph with units other than "kg" and "kcf" raises ValueError before
\* anything else: no matrix, no figure, no annotation, no file, and the set
\* of files is unchanged; with "kg" or "kcf" it does not raise.
C3_UnitsValidated ==
  [][(call = Idle /\ call'.op = "graph") =>
       IF call'.units \in {"kg", "kcf"}
       THEN call'.out.raised = NoRaise
       ELSE /\ call'.out.raised = "ValueError"
            /\ call'.out.Z = NoArray
            /\ call'.out.text = <<>>
            /\ call'.out.savefig = ""
            /\ ~call'.out.shown
            /\ files' = files]_vars

\* C3's case: graph was called with "lbs" when a file had been written
C3_Witness ==
  /\ GraphCalled
  /\ call.units = "lbs"
  /\ call.out.raised = "ValueError"
  /\ files = {"terraform_cost_kg.png"}

\* the number an element of a matrix holds
EltValue(A, i, j) == ToFloat(A.dtype, A.v[i][j])

SameAxes(c, d) ==
  /\ c.op = "graph" /\ d.op = "graph"
  /\ c.x_axis_values = d.x_axis_values
  /\ c.y_axis_values = d.y_axis_values

\* C4 as stated: for the same axes, every cell of the "kcf" matrix is the
\* cell of the "kg" matrix at the same place multiplied by 19.17.
C4_KcfIsKgScaled ==
  (SameAxes(first, call) /\ first.units = "kg" /\ call.units = "kcf") =>
    \A i \in 1..Rows(call.out.Z) : \A j \in 1..Cols(call.out.Z) :
      FEq(EltValue(call.out.Z, i, j),
          FMul(EltValue(first.out.Z, i, j), Lit(1917, 100)))

\* the cost the loop computes for cell (i, j) of a call of graph, from the
\* axis values alone
CostOfCell(c, i, j) ==
  terraform_cost(FDiv(ToFloat(c.x_axis_values.dtype, c.x_axis_values.v[j]),
                      FromInt(1000)),
                 ToFloat(c.y_axis_values.dtype, c.y_axis_values.v[i]))

GraphedIn(units) == GraphCalled /\ call.units = units /\ call.out.raised = NoRaise

ShapeIsYByX ==
  /\ Rows(call.out.Z) = Len(call.y_axis_values.v)
  /\ \A i \in 1..Rows(call.out.Z) :
       Len(call.out.Z.v[i]) = Len(call.x_axis_values.v)

\* C5 as stated: in "kg" mode the matrix has one row per y value and one
\* column per x value, and cell (i, j) is terraform_cost(x[j], y[i]).
C5_Original ==
  GraphedIn("kg") =>
    /\ ShapeIsYByX
    /\ \A i \in 1..Rows(call.out.Z) : \A j \in 1..Cols(call.out.Z) :
         FEq(EltValue(call.out.Z, i, j),
             terraform_cost(
               ToFloat(call.x_axis_values.dtype, call.x_axis_values.v[j]),
               ToFloat(call.y_axis_values.dtype, call.y_axis_values.v[i])))

\* C5, amended: in "kg" mode the matrix has one row per y value and one
\* column per x value, and cell (i, j) is terraform_cost(x[j] / 1000, y[i])
\* in the element type of the x axis: as it is for floats, cut to its
\* integer part for integers.
C5_GridOfCosts ==
  GraphedIn("kg") =>
    /\ ShapeIsYByX
    /\ \A i \in 1..Rows(call.out.Z) : \A j \in 1..Cols(call.out.Z) :
         call.out.Z.v[i][j] =
           IF call.x_axis_values.dtype = "int64"
           THEN IntElt(FTrunc(CostOfCell(call, i, j)))
           ELSE CostOfCell(call, i, j)

\* C5's case: a "kg" matrix with two columns and one row whose cells differ
C5_Witness ==
  /\ GraphedIn("kg")
  /\ Len(call.x_axis_values.v) = 2
  /\ Len(call.y_axis_values.v) = 1
  /\ call.out.Z.v[1][1] # call.out.Z.v[1][2]

\* C6 as stated: the cell prints a heating energy of 2.98 kWh and a heating
\* cost of $0.119 per degree hour.
C6_HeatingPrinted ==
  stdout # <<>> =>
    /\ stdout[2] = "Heating: 2.98 kWh"
    /\ stdout[12] = "Heating: $0.119"

\* C7: the cell prints a cooling energy of 1.32 kWh and a cooling cost of
\* $0.158 per degree hour.
C7_CoolingPrinted ==
  stdout # <<>> =>
    /\ stdout[3] = "Cooling: 1.32 kWh"
    /\ stdout[13] = "Cooling: $0.158"

\* C7's case: the cell has run and printed its thirteen lines
C7_Witness == Len(stdout) = 13 /\ stdout[11] = "Cost per Degree Hour:"

Applied == DOMAIN rets = {"left", "right", "sum", "next"}

\* raising either price, the other not lowered, never lowers the cost
Monotone ==
  /\ (FLe(args.a1, args.a2) /\ FLe(args.b1, args.b2)) => FLe(rets.left, rets.right)
  /\ FLe(rets.left, rets.sum)
  /\ FLe(rets.right, rets.sum)
  /\ FLe(rets.sum, rets.next)

ZeroAtZero ==
  /\ (IsZero(args.a1) /\ IsZero(args.b1)) => IsZero(rets.left)
  /\ (IsZero(args.a2) /\ IsZero(args.b2)) => IsZero(rets.right)

\* 2^-48
Tolerance == Float(0, BShl(<<1>>, 52), -100)

\* |a - b| <= 2^-48 * scale
Near(a, b, scale) == FLe(FAbs(FSub(a, b)), FMul(scale, Tolerance))

\* C8 as stated: over non-negative prices terraform_cost is non-decreasing
\* in each argument, zero at (0, 0), additive, terraform_cost(a1 + a2,
\* b1 + b2) = terraform_cost(a1, b1) + terraform_cost(a2, b2), and equal
\* increments of the arguments change the result by equal amounts.
C8_Original ==
  Applied =>
    /\ Monotone
    /\ ZeroAtZero
    /\ FEq(rets.sum, FAdd(rets.left, rets.right))
    /\ FEq(FSub(rets.next, rets.sum), FSub(rets.sum, rets.left))

\* C8, amended: over non-negative prices terraform_cost is non-decreasing in
\* each argument and zero at (0, 0); it is additive, and equal increments
\* change the result by equal amounts, up to the rounding of the floating
\* point operations: within 2^-48 of the largest result involved.
C8_LinearUpToRounding ==
  Applied =>
    /\ Monotone
    /\ ZeroAtZero
    /\ Near(rets.sum, FAdd(rets.left, rets.right), rets.sum)
    /\ Near(FSub(rets.next, rets.sum), FSub(rets.sum, rets.left), rets.next)

\* C8's case: all four applications made for positive prices, and the sum
\* of the two results is not the result for the sums
C8_Witness ==
  /\ Applied
  /\ ~IsZero(args.a1) /\ ~IsZero(args.a2) /\ ~IsZero(args.b1) /\ ~IsZero(args.b2)
  /\ ~FEq(rets.sum, FAdd(rets.left, rets.right))

SameInputs(c, d) ==
  /\ c.op = d.op
  /\ c.op = "terraform_cost" =>
       /\ c.usd_per_kg_co2 = d.usd_per_kg_co2
       /\ c.usd_per_kg_h2 = d.usd_per_kg_h2
  /\ c.op = "graph" => (SameAxes(c, d) /\ c.units = d.units)

C10_CellsUnrounded ==
  (GraphCalled /\ call.out.raised = NoRaise) =>
    /\ call.out.Z.dtype = call.x_axis_values.dtype
    /\ \A i \in 1..Rows(call.out.Z) : \A j \in 1..Cols(call.out.Z) :
         /\ FEq(EltValue(call.out.Z, i, j),
                UnitCost(CostOfCell(call, i, j), call.units))
         /\ call.out.text[i][j] =
              "$" \o FormatF(UnitCost(CostOfCell(call, i, j), call.units), 2)
====
